---- MODULE Spec2Model ----
(***************************************************************************)
(* Entities listing page (src/app/admin/entities/page.tsx): the filter     *)
(* state held by useState, the query cache consulted through useQuery      *)
(* (queryKey, queryFn, staleTime), the requests the queryFn has in flight, *)
(* and the tree the component returns for the current cache output.        *)
(*                                                                         *)
(* One fetch of a query is modelled from the moment the cache dispatches   *)
(* it until the queryFn's promise settles for good; the cache's own        *)
(* sequential re-invocations of the same queryFn closure are inside it.    *)
(***************************************************************************)
EXTENDS Integers, Sequences, FiniteSets, Bags, TLC

\* ------------------------------------------------------------------ bounds

\* Requests the model lets the page issue in one run.
MaxRequests == 2
\* The clock stops after this many ticks.
MaxTicks == 3
\* Longest registrations list given to the registrations cell.
MaxRegs == 4

\* ------------------------------------------------------- program constants

StaleTime == 30000

\* Granularity of the clock, in milliseconds: a third of the freshness window.
TickMs == StaleTime \div 3

\* Values typed into the search box (free text; "AE" is also a country code).
SearchInputs == {"", "AE"}
\* Values of the country <select> that the model exercises.
CountryInputs == {"", "AE"}
\* Values of the status <select> that the model exercises.
StatusInputs == {"", "ACTIVE"}

\* data === undefined; a value d that is present is held as Some(d).
Undefined == << >>
Some(d) == << d >>
NoError == "null"
\* new Error("Failed to fetch entities") on !response.ok; a rejected fetch().
FailedToFetch == "Failed to fetch entities"
NetworkError == "TypeError: fetch failed"
Failures == {FailedToFetch, NetworkError}

RegStatuses == {"VERIFIED", "PENDING", "verified"}

Acme ==
  [id |-> "1", name |-> "Acme", country |-> "AE", status |-> "ACTIVE",
   registrations |-> << [type |-> "VAT", status |-> "VERIFIED"],
                        [type |-> "TRADE", status |-> "PENDING"] >>]
Bare ==
  [id |-> "2", name |-> "Bare", country |-> "FR", status |-> "SUSPENDED",
   registrations |-> << >>]

\* result.data of the responses the read endpoint gives.
Responses == { << >>, << Bare, Acme >> }

VARIABLES
  searchTerm,      \* useState("")
  countryFilter,   \* useState("")
  statusFilter,    \* useState("")
  permissions,     \* the permission set behind usePermissionGate().can
  cache,           \* query cache: queryHash -> query state
  requests,        \* bag of queryFn invocations that have not settled
  nIssued,         \* number of fetches dispatched so far
  now,             \* Date.now()
  lastEvent,       \* the last step: its kind and the query it touched
  view,            \* what the component returned on its last render
  entity,          \* input of the registrations cell
  cell             \* output of the registrations cell

vars == << searchTerm, countryFilter, statusFilter, permissions, cache,
           requests, nIssued, now, lastEvent, view, entity, cell >>

pageVars == << searchTerm, countryFilter, statusFilter, permissions, cache,
               requests, nIssued, now, lastEvent, view >>

\* ------------------------------------------------------------- query key

\* A key that leaves the status filter out.
QueryKeyNoStatus(s, c, st) == << "entities", s, c >>

\* queryKey: ["entities", searchTerm, countryFilter, statusFilter]
QueryKey(s, c, st) == << "entities", s, c, st >>

\* A string as it stands in the serialized key.
Quote(s) == "\"" \o s \o "\""

\* The cache's serialization of a key made of strings: ["a","b",...].
RECURSIVE JoinQuoted(_)
JoinQuoted(k) ==
  IF Len(k) = 0 THEN ""
  ELSE IF Len(k) = 1 THEN Quote(k[1])
  ELSE Quote(k[1]) \o "," \o JoinQuoted(Tail(k))

HashKey(k) == "[" \o JoinQuoted(k) \o "]"

Filters == << searchTerm, countryFilter, statusFilter >>

HashOf(t) == HashKey(QueryKey(t[1], t[2], t[3]))

\* ------------------------------------------------------------- queryFn

\* Every field is sent, empty or not.
AlwaysTruthy(s) == TRUE

\* value && { name: value }: the empty string is the only falsy string.
Truthy(s) == s # ""

Spread(name, value) == IF Truthy(value) THEN << << name, value >> >> ELSE << >>

\* new URLSearchParams({...(searchTerm && {search}), ...}) in insertion order.
BuildParams(s, c, st) ==
  Spread("search", s) \o Spread("country", c) \o Spread("status", st)

\* One invocation of the queryFn closure rendered with filters t.
Request(t) ==
  [queryHash |-> HashOf(t), filters |-> t, params |-> BuildParams(t[1], t[2], t[3])]

\* ------------------------------------------------------------- query cache

\* State of a query that was just built for filters t: nothing fetched yet.
NewQuery(t) ==
  [filters |-> t, data |-> Undefined, dataUpdatedAt |-> 0, error |-> NoError,
   status |-> "pending", fetchStatus |-> "idle", origin |-> Undefined]

\* No freshness window: every access finds the entry stale.
AlwaysStale(q, time) == TRUE

\* staleTime: 30000. No data is always stale; data is stale once its age
\* reaches the window.
IsStale(q, time) ==
  q.data = Undefined \/ time - q.dataUpdatedAt >= StaleTime

\* Every stale access dispatches its own request.
AlwaysIssue(q) == TRUE

\* A fetch of a query that is already fetching returns the pending promise.
ShouldIssue(q) == q.fetchStatus = "idle"

\* Dispatching a fetch: an entry without data goes back to pending and drops
\* its error; an entry with data keeps both while it refetches.
FetchState(q) ==
  [q EXCEPT !.fetchStatus = "fetching",
            !.error = IF q.data = Undefined THEN NoError ELSE @,
            !.status = IF q.data = Undefined THEN "pending" ELSE @]

\* The observer of the page turning to the query of filters t at `time`.
Access(c, t, time) ==
  LET h == HashOf(t)
      c1 == IF h \in DOMAIN c THEN c ELSE c @@ (h :> NewQuery(t))
      q == c1[h]
  IN IF ~IsStale(q, time)
       THEN [cache |-> c1, issue |-> FALSE, outcome |-> "fresh"]
     ELSE IF ~ShouldIssue(q)
       THEN [cache |-> c1, issue |-> FALSE, outcome |-> "attached"]
     ELSE [cache |-> [c1 EXCEPT ![h] = FetchState(q)], issue |-> TRUE,
           outcome |-> "issued"]

\* The result lands in whatever query the page shows when it arrives.
CommitToActive(r, activeHash) == activeHash

\* The query a settled request is committed to.
CommitTarget(r, activeHash) == r.queryHash

\* return result.data
OnSuccess(q, r, data, time) ==
  [q EXCEPT !.data = Some(data), !.dataUpdatedAt = time, !.error = NoError,
            !.status = "success", !.fetchStatus = "idle", !.origin = r.filters]

\* A failure that also drops the records the entry held.
OnErrorDropData(q, err) ==
  [q EXCEPT !.data = Undefined, !.error = err, !.status = "error",
            !.fetchStatus = "idle"]

\* throw new Error("Failed to fetch entities"), or fetch() rejecting.
OnError(q, err) ==
  [q EXCEPT !.error = err, !.status = "error", !.fetchStatus = "idle"]

\* The cache output the component destructures for filters t.
Output(c, t) ==
  LET q == c[HashOf(t)]
  IN [data |-> q.data,
      isLoading |-> q.status = "pending" /\ q.fetchStatus = "fetching",
      error |-> q.error]

\* ------------------------------------------------------------- render

\* const { can } = usePermissionGate()
Can(perms, action) == action \in perms

\* data: entities = []
Entities(out) == IF out.data = Undefined THEN << >> ELSE out.data[1]

\* A status comparison that ignores case.
IsVerifiedAnyCase(r) == r.status \in {"VERIFIED", "verified"}

\* The registrations column: `${verified}/${entity.registrations.length}`.
IsVerified(r) == r.status = "VERIFIED"

RegistrationsCell(e) ==
  LET verified == Len(SelectSeq(e.registrations, IsVerified))
  IN ToString(verified) \o "/" \o ToString(Len(e.registrations))

\* entities.map((entity) => <tr key={entity.id}> ... </tr>)
Rows(entities) ==
  [i \in 1..Len(entities) |->
     [key |-> entities[i].id, name |-> entities[i].name,
      registrations |-> RegistrationsCell(entities[i])]]

\* No early return on error.
NoErrorBranch(out) == FALSE

\* if (error) return <error panel>
ErrorBranch(out) == out.error # NoError

\* entities.length === 0 && !isLoading
EmptyState(entities, isLoading) == Len(entities) = 0 /\ ~isLoading

\* The call-to-action without its gate.
AlwaysShowCreate(perms) == TRUE

\* {can("entities:create") && <Link href="/admin/entities/new">}
ShowCreate(perms) == Can(perms, "entities:create")

\* No throwOnError option is given: the error comes back as a value.
ThrowOnError == FALSE

\* What the component returns for cache output `out`.
Render(out, perms) ==
  LET entities == Entities(out)
      empty == EmptyState(entities, out.isLoading)
  IN IF ErrorBranch(out) /\ ThrowOnError
       THEN [panel |-> "thrown", message |-> out.error, filters |-> FALSE,
             headerCreate |-> FALSE, summary |-> "", emptyState |-> FALSE,
             emptyCreate |-> FALSE, table |-> FALSE, rows |-> << >>]
     ELSE IF ErrorBranch(out)
       THEN [panel |-> "error", message |-> out.error, filters |-> FALSE,
             headerCreate |-> FALSE, summary |-> "", emptyState |-> FALSE,
             emptyCreate |-> FALSE, table |-> FALSE, rows |-> << >>]
     ELSE [panel |-> "page", message |-> "", filters |-> TRUE,
           headerCreate |-> ShowCreate(perms),
           summary |-> IF out.isLoading THEN "Loading entities..."
                       ELSE "Showing " \o ToString(Len(entities)),
           emptyState |-> empty,
           emptyCreate |-> empty /\ ShowCreate(perms),
           table |-> ~empty,
           rows |-> IF empty THEN << >> ELSE Rows(entities)]

\* ------------------------------------------------------------- actions

NoEntity == [id |-> "0", registrations |-> << >>]

\* The page mounted with empty filters: the first render built the query of
\* the empty filters and dispatched its fetch.
Mounted(perms) ==
  LET t == << "", "", "" >>
      a == Access(<< >>, t, 0)
  IN /\ searchTerm = "" /\ countryFilter = "" /\ statusFilter = ""
     /\ permissions = perms
     /\ cache = a.cache
     /\ requests = SetToBag({Request(t)})
     /\ nIssued = 1
     /\ now = 0
     /\ lastEvent = [kind |-> a.outcome, hash |-> HashOf(t)]
     /\ view = Render(Output(a.cache, t), perms)

PermissionSets == { {}, {"entities:create"} }

Init ==
  /\ \E perms \in PermissionSets : Mounted(perms)
  /\ entity = NoEntity
  /\ cell = ""

\* A render with filters t: the observer turns to t's query, a fetch is
\* dispatched when the access asks for one, and the tree is returned.
Rerender(t) ==
  LET a == Access(cache, t, now)
  IN /\ a.issue => nIssued < MaxRequests
     /\ cache' = a.cache
     /\ requests' = IF a.issue THEN requests (+) SetToBag({Request(t)}) ELSE requests
     /\ nIssued' = IF a.issue THEN nIssued + 1 ELSE nIssued
     /\ lastEvent' = [kind |-> a.outcome, hash |-> HashOf(t)]
     /\ view' = Render(Output(a.cache, t), permissions)

\* onChange of the search input: handleSearch(value) -> setSearchTerm(value)
SetSearchTerm(v) ==
  /\ view.filters
  /\ v # searchTerm
  /\ searchTerm' = v
  /\ Rerender(<< v, countryFilter, statusFilter >>)
  /\ UNCHANGED << countryFilter, statusFilter, permissions, now, entity, cell >>

\* onChange of the country select: setCountryFilter(value)
SetCountryFilter(v) ==
  /\ view.filters
  /\ v # countryFilter
  /\ countryFilter' = v
  /\ Rerender(<< searchTerm, v, statusFilter >>)
  /\ UNCHANGED << searchTerm, statusFilter, permissions, now, entity, cell >>

\* onChange of the status select: setStatusFilter(value)
SetStatusFilter(v) ==
  /\ view.filters
  /\ v # statusFilter
  /\ statusFilter' = v
  /\ Rerender(<< searchTerm, countryFilter, v >>)
  /\ UNCHANGED << searchTerm, countryFilter, permissions, now, entity, cell >>

\* The window regains focus: the observed query is refetched when stale.
WindowFocus ==
  /\ Rerender(Filters)
  /\ UNCHANGED << searchTerm, countryFilter, statusFilter, permissions, now,
                  entity, cell >>

\* response.ok: result.data is committed and the page renders again.
FetchSucceed(r, data) ==
  LET h == CommitTarget(r, HashOf(Filters))
      c == [cache EXCEPT ![h] = OnSuccess(cache[h], r, data, now)]
  IN /\ BagIn(r, requests)
     /\ cache' = c
     /\ requests' = requests (-) SetToBag({r})
     /\ lastEvent' = [kind |-> "succeeded", hash |-> r.queryHash]
     /\ view' = Render(Output(c, Filters), permissions)
     /\ UNCHANGED << searchTerm, countryFilter, statusFilter, permissions,
                     nIssued, now, entity, cell >>

\* !response.ok or a rejected fetch(): the error is committed and the page
\* renders again.
FetchFail(r, err) ==
  LET h == CommitTarget(r, HashOf(Filters))
      c == [cache EXCEPT ![h] = OnError(cache[h], err)]
  IN /\ BagIn(r, requests)
     /\ cache' = c
     /\ requests' = requests (-) SetToBag({r})
     /\ lastEvent' = [kind |-> "failed", hash |-> r.queryHash]
     /\ view' = Render(Output(c, Filters), permissions)
     /\ UNCHANGED << searchTerm, countryFilter, statusFilter, permissions,
                     nIssued, now, entity, cell >>

\* Time passes.
Tick ==
  /\ now + TickMs <= MaxTicks * TickMs
  /\ now' = now + TickMs
  /\ lastEvent' = [kind |-> "tick", hash |-> ""]
  /\ UNCHANGED << searchTerm, countryFilter, statusFilter, permissions, cache,
                  requests, nIssued, view, entity, cell >>

Next ==
  \/ \E v \in SearchInputs : SetSearchTerm(v)
  \/ \E v \in CountryInputs : SetCountryFilter(v)
  \/ \E v \in StatusInputs : SetStatusFilter(v)
  \/ WindowFocus
  \/ \E r \in BagToSet(requests), data \in Responses : FetchSucceed(r, data)
  \/ \E r \in BagToSet(requests), err \in Failures : FetchFail(r, err)
  \/ Tick

Spec == Init /\ [][Next]_vars

\* ------------------------------------------------- the registrations cell

RECURSIVE SeqsUpTo(_, _)
SeqsUpTo(S, n) ==
  IF n = 0 THEN { << >> }
  ELSE LET shorter == SeqsUpTo(S, n - 1)
       IN shorter \cup { Append(q, x) : q \in { p \in shorter : Len(p) = n - 1 }, x \in S }

Registration(st) == [type |-> "VAT", status |-> st]

EntityInputs ==
  { [id |-> "1", registrations |-> [i \in 1..Len(q) |-> Registration(q[i])]] :
      q \in SeqsUpTo(RegStatuses, MaxRegs) }

InitCell ==
  /\ Mounted({})
  /\ entity \in EntityInputs
  /\ cell = ""

\* col.cell(entity) of the registrations column.
ProjectCell ==
  /\ cell = ""
  /\ cell' = RegistrationsCell(entity)
  /\ UNCHANGED << pageVars, entity >>

NextCell == ProjectCell

SpecCell == InitCell /\ [][NextCell]_vars

\* ------------------------------------------------------------- properties

ActiveHash == HashOf(Filters)

ActiveOutput == Output(cache, Filters)

\* Requests in flight for the query with hash h.
InFlight(h) == { r \in BagToSet(requests) : r.queryHash = h }

\* C1: for every cache key at most one request is in flight at any time: an
\* access that arrives while the key's request is pending issues none, and
\* the key is fetching exactly while its one request is in flight.
C1_SingleFlight ==
  /\ \A r \in BagToSet(requests) :
       /\ CopiesIn(r, requests) = 1
       /\ r.queryHash \in DOMAIN cache
  /\ \A h \in DOMAIN cache :
       /\ Cardinality(InFlight(h)) <= 1
       /\ cache[h].fetchStatus = "fetching" <=> Cardinality(InFlight(h)) = 1
  /\ BagCardinality(requests) <= nIssued

\* An access found its key's request pending and attached to it.
C1_Witness ==
  /\ lastEvent.kind = "attached"
  /\ Cardinality(InFlight(ActiveHash)) = 1
  /\ nIssued = 2

\* C2: a response is only ever committed to the entry of the key it was
\* requested for, so the rows shown for the active key never come from a
\* request made for another key, whatever the order of filter changes and
\* resolutions.
C2_NoCrossCommit ==
  /\ \A h \in DOMAIN cache :
       cache[h].origin # Undefined =>
         /\ cache[h].origin = cache[h].filters
         /\ HashOf(cache[h].origin) = h
  /\ Len(view.rows) > 0 => cache[ActiveHash].origin = Filters

\* A request resolved after the page had moved on to another key.
C2_Witness ==
  /\ lastEvent.kind = "succeeded"
  /\ lastEvent.hash # ActiveHash
  /\ cache[lastEvent.hash].data = Some(<< Bare, Acme >>)
  /\ view.rows = << >>

\* C3: a failed fetch leaves the records cached for its key as they were,
\* sets that entry's error to the failure, and the component gets the error
\* as a value instead of an exception.
C3_FailureKeepsRecords ==
  [][lastEvent'.kind = "failed" =>
       LET h == lastEvent'.hash
       IN /\ cache'[h].data = cache[h].data
          /\ cache'[h].dataUpdatedAt = cache[h].dataUpdatedAt
          /\ cache'[h].error \in Failures
          /\ cache'[h].status = "error"
          /\ view'.panel # "thrown"]_vars

\* A refetch of a populated entry failed.
C3_Witness ==
  /\ lastEvent.kind = "failed"
  /\ cache[lastEvent.hash].data = Some(<< Bare, Acme >>)
  /\ cache[lastEvent.hash].error = FailedToFetch

\* An entry that holds data younger than the freshness window.
Fresh(h) ==
  /\ cache[h].data # Undefined
  /\ now - cache[h].dataUpdatedAt < StaleTime

\* C4: no step issues a request for a key whose entry was fetched
\* successfully less than 30 seconds ago.
C4_FreshNeverRefetched ==
  [][\A h \in DOMAIN cache :
       Fresh(h) => /\ InFlight(h) = { }
                   /\ \A r \in BagToSet(requests') : r.queryHash # h]_vars

\* The page came back to a key fetched earlier, inside the window.
C4_Witness ==
  /\ lastEvent.kind = "fresh"
  /\ Cardinality(DOMAIN cache) = 2
  /\ now > cache[ActiveHash].dataUpdatedAt
  /\ nIssued = 2
  /\ requests = EmptyBag

\* C5: while the error panel is shown the filter inputs are still rendered.
C5_ErrorStaysInteractive == view.panel = "error" => view.filters

FieldNames == << "search", "country", "status" >>

\* The filter triple with its empty fields left out.
Normal(t) == { << FieldNames[i], t[i] >> : i \in { j \in 1..3 : t[j] # "" } }

\* C6: two filter triples share a cache entry exactly when they are the same
\* after their empty fields are left out.
C6_KeyFollowsNormalForm ==
  /\ \A h \in DOMAIN cache :
       /\ HashOf(cache[h].filters) = h
       /\ h = ActiveHash <=> Normal(cache[h].filters) = Normal(Filters)
  /\ \A h1, h2 \in DOMAIN cache :
       h1 = h2 <=> Normal(cache[h1].filters) = Normal(cache[h2].filters)

\* Two entries whose filters differ in one field that is empty in one of them.
C6_Witness ==
  /\ Cardinality(DOMAIN cache) = 2
  /\ Filters = << "", "", "ACTIVE" >>
  /\ \E h \in DOMAIN cache : cache[h].filters = << "", "", "" >>

\* C7: zero records, not loading and no error give the empty-state block in
\* place of the table, and the creation link is in it exactly when
\* can("entities:create") holds.
C7_EmptyStateGated ==
  (/\ Len(Entities(ActiveOutput)) = 0
   /\ ~ActiveOutput.isLoading
   /\ ActiveOutput.error = NoError)
  => /\ view.emptyState
     /\ ~view.table
     /\ view.rows = << >>
     /\ view.emptyCreate <=> "entities:create" \in permissions
     /\ view.headerCreate <=> "entities:create" \in permissions

\* An empty result shown to an actor without the permission.
C7_Witness ==
  /\ ActiveOutput.data = Some(<< >>)
  /\ view.emptyState
  /\ ~view.emptyCreate
  /\ permissions = { }

\* Number of registrations of e whose status is exactly "VERIFIED".
VerifiedCount(e) ==
  Cardinality({ i \in 1..Len(e.registrations) : e.registrations[i].status = "VERIFIED" })

\* C8: the registrations cell is "<verified>/<total>", verified counting the
\* registrations whose status equals "VERIFIED", and "0/0" for none.
C8_RegistrationsCell ==
  cell # "" =>
    /\ cell = ToString(VerifiedCount(entity)) \o "/" \o ToString(Len(entity.registrations))
    /\ VerifiedCount(entity) <= Len(entity.registrations)
    /\ Len(entity.registrations) = 0 => cell = "0/0"

\* The cell of an entity without registrations.
C8_Witness ==
  /\ entity.registrations = << >>
  /\ cell = "0/0"

ShowsLoading == view.panel = "page" /\ view.summary = "Loading entities..."
ShowsError == view.panel = "error"
ShowsEmpty == view.panel = "page" /\ view.emptyState
ShowsPopulated == view.panel = "page" /\ view.table /\ Len(view.rows) > 0

\* C9: the page shows exactly one of loading, error, empty and populated,
\* the one the cache output of the active key calls for; rows appear only
\* when populated, one per record in the order received.
C9_OnePresentationState ==
  LET out == ActiveOutput
      entities == Entities(out)
      shown == { k \in {"loading", "error", "empty", "populated"} :
                   \/ k = "loading" /\ ShowsLoading
                   \/ k = "error" /\ ShowsError
                   \/ k = "empty" /\ ShowsEmpty
                   \/ k = "populated" /\ ShowsPopulated }
      due == IF out.error # NoError THEN "error"
             ELSE IF out.isLoading THEN "loading"
             ELSE IF Len(entities) = 0 THEN "empty"
             ELSE "populated"
  IN /\ shown = { due }
     /\ due = "populated" =>
          /\ Len(view.rows) = Len(entities)
          /\ \A i \in 1..Len(entities) : view.rows[i].key = entities[i].id
     /\ due # "populated" => view.rows = << >>

\* Two records shown in the order the response gave them.
C9_Witness ==
  /\ ShowsPopulated
  /\ Len(view.rows) = 2
  /\ view.rows[1].key = "2"
  /\ view.rows[2].key = "1"

\* C10: a request carries one parameter for each non-empty filter field,
\* with that field's value, and none for an empty field.
C10_OnlyNonEmptyParams ==
  \A r \in BagToSet(requests) :
    /\ \A i \in 1..Len(r.params) : r.params[i][2] # ""
    /\ \A j \in 1..3 :
         /\ r.filters[j] = "" =>
              \A i \in 1..Len(r.params) : r.params[i][1] # FieldNames[j]
         /\ r.filters[j] # "" =>
              \E i \in 1..Len(r.params) : r.params[i] = << FieldNames[j], r.filters[j] >>
    /\ Len(r.params) = Cardinality({ j \in 1..3 : r.filters[j] # "" })

\* A request for a country alone.
C10_Witness ==
  \E r \in BagToSet(requests) :
    /\ r.filters = << "", "AE", "" >>
    /\ r.params = << << "country", "AE" >> >>

====
